---- MODULE Spec2Model ----
(***************************************************************************)
(* A model of LFSR.py: the function lfsr_32bit (a Galois linear-feedback   *)
(* shift register over Python integers) and the module's own top-level     *)
(* run, which calls it with the default arguments and plots the result.    *)
(*                                                                         *)
(* Python integers are unbounded and two's complement with an infinite     *)
(* sign extension.  A value is modelled exactly, as a record               *)
(*     [neg |-> sign, bits |-> the positions whose bit differs from the    *)
(*                              sign],                                     *)
(* so that 0 is [FALSE, {}], 1 is [FALSE, {0}], -1 is [TRUE, {}] and       *)
(* 0x80200003 is [FALSE, {0, 1, 21, 31}].  No operator below truncates to  *)
(* a width: neither does the code.                                         *)
(***************************************************************************)
EXTENDS Integers, Sequences, FiniteSets

(***************************************************************************)
(* Bounds of the model and constants of the program.                       *)
(***************************************************************************)
\* The register width the function is named after; the arguments are W-bit.
W == 32
\* Seeds of the sequential specification have their bits below SeedBits or at W-1.
SeedBits == 4
\* Tap masks have their bits below TapBits or where the default mask has them.
TapBits == 2
\* Cycle counts of the sequential specification range over 0..MaxCycles.
MaxCycles == 5
\* Seeds of the linearity specification have their bits below LinBits.
LinBits == 3
\* Seeds of the interleaved specification have their bits below ConcBits.
ConcBits == 2
\* Cycle counts of the interleaved specification range over 0..ConcMaxCycles.
ConcMaxCycles == 2
\* The activation records of lfsr_32bit the model holds.
Calls == {1, 2, 3}
\* The interleaved calls.
ConcCalls == {1, 2}

(***************************************************************************)
(* Python integers.                                                        *)
(***************************************************************************)
Zero == [neg |-> FALSE, bits |-> {}]
One == [neg |-> FALSE, bits |-> {0}]

\* The bit of x at position i (TRUE for 1).
BitAt(x, i) == (i \in x.bits) # x.neg

\* x & y
And(x, y) ==
    LET n == x.neg /\ y.neg
    IN  [neg |-> n,
         bits |-> {i \in x.bits \cup y.bits : (BitAt(x, i) /\ BitAt(y, i)) # n}]

\* x ^ y
Xor(x, y) ==
    [neg |-> x.neg # y.neg,
     bits |-> (x.bits \ y.bits) \cup (y.bits \ x.bits)]

\* x >> n raises ValueError for a negative shift count.
ShiftRaises(n) == n < 0

\* x >> n for n >= 0: the floor of x / 2^n, which keeps the sign.
RShift(x, n) ==
    [neg |-> x.neg, bits |-> {i - n : i \in {j \in x.bits : j >= n}}]

\* ~x
Invert(x) == [neg |-> ~x.neg, bits |-> x.bits]

\* x + 1, by carry (x >= 0) or borrow in the complement (x < 0).
Increment(x) ==
    IF ~x.neg
    THEN LET k == CHOOSE j \in 0..Cardinality(x.bits) :
                      j \notin x.bits /\ \A l \in 0..(j - 1) : l \in x.bits
         IN  [neg |-> FALSE, bits |-> {i \in x.bits : i > k} \cup {k}]
    ELSE IF x.bits = {}
         THEN Zero
         ELSE LET k == CHOOSE j \in x.bits : \A l \in x.bits : j <= l
              IN  [neg |-> TRUE, bits |-> (x.bits \ {k}) \cup (0..(k - 1))]

\* A slip: the unary minus left out.
NegateDropped(x) == x

\* -x, which is ~x + 1.
Negate(x) == Increment(Invert(x))

\* The value of a hexadecimal literal, given as its digits, most significant first.
FromHex(digits) ==
    LET n == Len(digits)
        NibbleBit(d, j) == (d \div (2 ^ j)) % 2 = 1
    IN  [neg |-> FALSE,
         bits |-> {4 * (n - k) + j : <<k, j>> \in
                     {<<k, j>> \in (1..n) \X (0..3) : NibbleBit(digits[k], j)}}]

(***************************************************************************)
(* The defaults of lfsr_32bit.                                             *)
(***************************************************************************)
DefaultSeed == One
\* A slip: a digit of the literal dropped (0x8020003).
DefaultTapsShort == FromHex(<<8, 0, 2, 0, 0, 0, 3>>)
DefaultTaps == FromHex(<<8, 0, 2, 0, 0, 0, 0, 3>>)
DefaultCycles == 100

(***************************************************************************)
(* One iteration of the loop of lfsr_32bit, as expressions.                *)
(***************************************************************************)
\* A slip: the tap mask left out, the feedback being -(state & 1) itself.
FeedbackUnmasked(s, t) == Negate(And(s, One))

\* A slip: the condition inverted, the tap mask applied when the low bit is 0.
FeedbackInverted(s, t) == And(Negate(And(Xor(s, One), One)), t)

\* A slip: the tap mask applied whatever the low bit is.
FeedbackAlways(s, t) == t

\* -(state & 1) & taps
Feedback(s, t) == And(Negate(And(s, One)), t)

\* A slip: the shift made to the left (state << 1).
ShiftedLeft(s) == [neg |-> s.neg, bits |-> {i + 1 : i \in s.bits}]

\* A slip: a shift by two positions.
ShiftedTwice(s) == RShift(s, 2)

\* state >> 1
Shifted(s) == RShift(s, 1)

\* A slip: | written for ^ (the arguments reached are not negative).
NextStateOr(s, t) ==
    [neg |-> FALSE, bits |-> Shifted(s).bits \cup Feedback(s, t).bits]

\* (state >> 1) ^ (-(state & 1) & taps)
NextState(s, t) == Xor(Shifted(s), Feedback(s, t))

\* A slip: the whole register appended.
OutBitWhole(s) == s

\* state & 1
OutBit(s) == And(s, One)

\* A slip: one iteration too many.
LoopContinuesInclusive(k, c) == k <= c

\* range(cycles) has a next element after k iterations.
LoopContinues(k, c) == k < c

(***************************************************************************)
(* The state: one activation record of lfsr_32bit per call, and the        *)
(* module's top-level script.                                              *)
(***************************************************************************)
VARIABLES
    pc,       \* per call: "idle", "loop", "done" (returned) or "error" (raised)
    seed,     \* per call: the argument seed
    taps,     \* per call: the argument taps
    cycles,   \* per call: the argument cycles
    state,    \* per call: the local state, the register
    output,   \* per call: the local output, a sequence of Python integers
    iter,     \* per call: the iterations of the for loop made so far
    mpc,      \* the module's script: "start", "called", "bound", "plotted"
    seq,      \* the module's global seq
    plotted   \* what plt.plot was given

vars == <<pc, seed, taps, cycles, state, output, iter, mpc, seq, plotted>>

frame == <<pc, seed, taps, cycles, state, output, iter>>
script == <<mpc, seq, plotted>>

Unset == <<"unset">>

Init ==
    /\ pc = [p \in Calls |-> "idle"]
    /\ seed = [p \in Calls |-> Zero]
    /\ taps = [p \in Calls |-> Zero]
    /\ cycles = [p \in Calls |-> 0]
    /\ state = [p \in Calls |-> Zero]
    /\ output = [p \in Calls |-> <<>>]
    /\ iter = [p \in Calls |-> 0]
    /\ mpc = "start"
    /\ seq = Unset
    /\ plotted = Unset

(***************************************************************************)
(* lfsr_32bit.                                                             *)
(***************************************************************************)
\* A slip: the register kept from the call before (a module-level register).
CallKeepState(p, s, t, c) ==
    /\ pc[p] \in {"idle", "done"}
    /\ pc' = [pc EXCEPT ![p] = "loop"]
    /\ seed' = [seed EXCEPT ![p] = s]
    /\ taps' = [taps EXCEPT ![p] = t]
    /\ cycles' = [cycles EXCEPT ![p] = c]
    /\ state' = [state EXCEPT ![p] = IF pc[p] = "done" THEN state[p] ELSE s]
    /\ output' = [output EXCEPT ![p] = <<>>]
    /\ iter' = [iter EXCEPT ![p] = 0]

\* A slip: a zero seed rejected with an error.
CallRejectZero(p, s, t, c) ==
    /\ pc[p] \in {"idle", "done"}
    /\ pc' = [pc EXCEPT ![p] = IF s = Zero THEN "error" ELSE "loop"]
    /\ seed' = [seed EXCEPT ![p] = s]
    /\ taps' = [taps EXCEPT ![p] = t]
    /\ cycles' = [cycles EXCEPT ![p] = c]
    /\ state' = [state EXCEPT ![p] = s]
    /\ output' = [output EXCEPT ![p] = <<>>]
    /\ iter' = [iter EXCEPT ![p] = 0]

\* A slip: a zero seed silently replaced by 1.
CallForceNonzero(p, s, t, c) ==
    /\ pc[p] \in {"idle", "done"}
    /\ pc' = [pc EXCEPT ![p] = "loop"]
    /\ seed' = [seed EXCEPT ![p] = s]
    /\ taps' = [taps EXCEPT ![p] = t]
    /\ cycles' = [cycles EXCEPT ![p] = c]
    /\ state' = [state EXCEPT ![p] = IF s = Zero THEN One ELSE s]
    /\ output' = [output EXCEPT ![p] = <<>>]
    /\ iter' = [iter EXCEPT ![p] = 0]

\* A call lfsr_32bit(s, t, c): a fresh activation record; state = seed; output = [].
Call(p, s, t, c) ==
    /\ pc[p] \in {"idle", "done"}
    /\ pc' = [pc EXCEPT ![p] = "loop"]
    /\ seed' = [seed EXCEPT ![p] = s]
    /\ taps' = [taps EXCEPT ![p] = t]
    /\ cycles' = [cycles EXCEPT ![p] = c]
    /\ state' = [state EXCEPT ![p] = s]
    /\ output' = [output EXCEPT ![p] = <<>>]
    /\ iter' = [iter EXCEPT ![p] = 0]

\* A slip: the bit emitted before the register is updated.
StepEmitOld(p) ==
    /\ pc[p] = "loop"
    /\ LoopContinues(iter[p], cycles[p])
    /\ state' = [state EXCEPT ![p] = NextState(state[p], taps[p])]
    /\ output' = [output EXCEPT ![p] = Append(output[p], OutBit(state[p]))]
    /\ iter' = [iter EXCEPT ![p] = iter[p] + 1]
    /\ UNCHANGED <<pc, seed, taps, cycles, script>>

\* A slip: one register shared by all calls (that of call 1).
StepShared(p) ==
    /\ pc[p] = "loop"
    /\ LoopContinues(iter[p], cycles[p])
    /\ LET new == NextState(state[1], taps[p])
       IN  /\ state' = [q \in Calls |-> IF q \in {1, p} THEN new ELSE state[q]]
           /\ output' = [output EXCEPT ![p] = Append(output[p], OutBit(new))]
    /\ iter' = [iter EXCEPT ![p] = iter[p] + 1]
    /\ UNCHANGED <<pc, seed, taps, cycles, script>>

\* A slip: the bit inserted at the front of the output (output.insert(0, ...)).
StepPrepend(p) ==
    /\ pc[p] = "loop"
    /\ LoopContinues(iter[p], cycles[p])
    /\ state' = [state EXCEPT ![p] = NextState(state[p], taps[p])]
    /\ output' = [output EXCEPT ![p] = <<OutBit(state'[p])>> \o output[p]]
    /\ iter' = [iter EXCEPT ![p] = iter[p] + 1]
    /\ UNCHANGED <<pc, seed, taps, cycles, script>>

\* One iteration of the for loop: the register update, then the append.
Step(p) ==
    /\ pc[p] = "loop"
    /\ LoopContinues(iter[p], cycles[p])
    /\ IF ShiftRaises(1)
       THEN /\ pc' = [pc EXCEPT ![p] = "error"]
            /\ UNCHANGED <<state, output, iter>>
       ELSE /\ state' = [state EXCEPT ![p] = NextState(state[p], taps[p])]
            /\ output' = [output EXCEPT ![p] = Append(output[p], OutBit(state'[p]))]
            /\ iter' = [iter EXCEPT ![p] = iter[p] + 1]
            /\ pc' = pc
    /\ UNCHANGED <<seed, taps, cycles, script>>

\* A slip: the loop left as soon as the register is 0.
ReturnOnZero(p) ==
    /\ pc[p] = "loop"
    /\ ~LoopContinues(iter[p], cycles[p]) \/ state[p] = Zero
    /\ pc' = [pc EXCEPT ![p] = "done"]
    /\ UNCHANGED <<seed, taps, cycles, state, output, iter, script>>

\* The loop is exhausted: return output.
Return(p) ==
    /\ pc[p] = "loop"
    /\ ~LoopContinues(iter[p], cycles[p])
    /\ pc' = [pc EXCEPT ![p] = "done"]
    /\ UNCHANGED <<seed, taps, cycles, state, output, iter, script>>

(***************************************************************************)
(* The module's script: seq = lfsr_32bit(); ...; plt.plot(seq, ...).       *)
(***************************************************************************)
\* seq = lfsr_32bit(): the call, with every argument defaulted.
ModuleCall ==
    /\ mpc = "start"
    /\ Call(1, DefaultSeed, DefaultTaps, DefaultCycles)
    /\ mpc' = "called"
    /\ UNCHANGED <<seq, plotted>>

\* seq = lfsr_32bit(): the binding of the returned list.
ModuleBind ==
    /\ mpc = "called"
    /\ pc[1] = "done"
    /\ seq' = output[1]
    /\ mpc' = "bound"
    /\ UNCHANGED <<frame, plotted>>

\* plt.plot(seq, marker = 'o'): the renderer receives seq.
ModulePlot ==
    /\ mpc = "bound"
    /\ plotted' = seq
    /\ mpc' = "plotted"
    /\ UNCHANGED <<frame, seq>>

(***************************************************************************)
(* The arguments the model draws.                                          *)
(***************************************************************************)
Masks(positions) == {[neg |-> FALSE, bits |-> b] : b \in SUBSET positions}

Seeds == Masks((0..(SeedBits - 1)) \cup {W - 1})
Taps == Masks((0..(TapBits - 1)) \cup DefaultTaps.bits)
Cycles == 0..MaxCycles

KnownVector == [seed |-> One, taps |-> DefaultTaps, cycles |-> 5]

ConcArgs ==
    {[seed |-> s, taps |-> t, cycles |-> c] :
        s \in Masks(0..(ConcBits - 1)), t \in {Zero, DefaultTaps}, c \in 0..ConcMaxCycles}
    \cup {KnownVector}

(***************************************************************************)
(* Specifications.                                                         *)
(***************************************************************************)
\* One call, of any arguments, run from its entry to its return.
SeqCall ==
    /\ pc[1] = "idle"
    /\ \E s \in Seeds, t \in Taps, c \in Cycles : Call(1, s, t, c)
    /\ UNCHANGED script
SeqStep == Step(1)
SeqReturn == Return(1)
Next == SeqCall \/ SeqStep \/ SeqReturn
Spec == Init /\ [][Next]_vars

\* One call run to its end: the function is synchronous, so once entered its loop
\* keeps stepping and its return is taken.  (Fewer arguments than Spec draws.)
LiveCall ==
    /\ pc[1] = "idle"
    /\ \E s \in Masks(0..(SeedBits - 1)), t \in {Zero, DefaultTaps}, c \in Cycles :
          Call(1, s, t, c)
    /\ UNCHANGED script
LiveNext == LiveCall \/ SeqStep \/ SeqReturn
FairSpec == Init /\ [][LiveNext]_vars /\ WF_vars(SeqStep) /\ WF_vars(SeqReturn)

\* Calls in two activation records, one after another in each, with the steps of
\* the two interleaved in any order.
ConcCall ==
    /\ \E p \in ConcCalls, a \in ConcArgs : Call(p, a.seed, a.taps, a.cycles)
    /\ UNCHANGED script
ConcStep == \E p \in ConcCalls : Step(p)
ConcReturn == \E p \in ConcCalls : Return(p)
ConcNext == ConcCall \/ ConcStep \/ ConcReturn
ConcSpec == Init /\ [][ConcNext]_vars

\* A run of m + n cycles, then the same run cut after m cycles, then a run of n
\* cycles seeded with the register the cut run ended with; one after another.
ChainTaps == Masks(0..(TapBits - 1)) \cup {DefaultTaps}
ChainFull ==
    /\ \A p \in Calls : pc[p] = "idle"
    /\ \E s \in Masks(0..(SeedBits - 1)), t \in ChainTaps, c \in Cycles : Call(1, s, t, c)
    /\ UNCHANGED script
ChainFirst ==
    /\ pc[1] = "done" /\ pc[2] = "idle"
    /\ \E m \in 0..cycles[1] : Call(2, seed[1], taps[1], m)
    /\ UNCHANGED script
ChainSecond ==
    /\ pc[2] = "done" /\ pc[3] = "idle"
    /\ Call(3, state[2], taps[2], cycles[1] - cycles[2])
    /\ UNCHANGED script
ChainStep == \E p \in Calls : Step(p)
ChainReturn == \E p \in Calls : Return(p)
ChainNext == ChainFull \/ ChainFirst \/ ChainSecond \/ ChainStep \/ ChainReturn
ChainSpec == Init /\ [][ChainNext]_vars

\* Three runs with the same tap mask and cycle count, seeded a, b and a ^ b, and
\* advanced in step: call 1, then call 2, then call 3, one iteration each.
LinCallA ==
    /\ \A p \in Calls : pc[p] = "idle"
    /\ \E a \in Masks(0..(LinBits - 1)), t \in ChainTaps, c \in Cycles : Call(1, a, t, c)
    /\ UNCHANGED script
LinCallB ==
    /\ pc[1] = "loop" /\ pc[2] = "idle"
    /\ \E b \in Masks(0..(LinBits - 1)) : Call(2, b, taps[1], cycles[1])
    /\ UNCHANGED script
LinCallX ==
    /\ pc[2] = "loop" /\ pc[3] = "idle"
    /\ Call(3, Xor(seed[1], seed[2]), taps[1], cycles[1])
    /\ UNCHANGED script
LinTurn(p) ==
    /\ pc[3] # "idle"
    /\ \/ p = 1 /\ iter[1] = iter[3]
       \/ p = 2 /\ iter[2] < iter[1]
       \/ p = 3 /\ iter[3] < iter[2]
LinStep == \E p \in Calls : LinTurn(p) /\ Step(p)
LinReturn == \E p \in Calls : pc[3] # "idle" /\ Return(p)
LinNext == LinCallA \/ LinCallB \/ LinCallX \/ LinStep \/ LinReturn
LinSpec == Init /\ [][LinNext]_vars

\* The module's own run.
MainNext == ModuleCall \/ SeqStep \/ SeqReturn \/ ModuleBind \/ ModulePlot
MainSpec == Init /\ [][MainNext]_vars

(***************************************************************************)
(* The function as a whole, run alone: what the loop computes.             *)
(***************************************************************************)
\* The register after k iterations of the loop from seed s with taps t.
RECURSIVE RegAfter(_, _, _)
RegAfter(s, t, k) == IF k = 0 THEN s ELSE NextState(RegAfter(s, t, k - 1), t)

\* The list lfsr_32bit(s, t, c) returns.
RunAlone(s, t, c) == [k \in 1..c |-> OutBit(RegAfter(s, t, k))]

(***************************************************************************)
(* What the specification says a step is, stated apart from the code.      *)
(***************************************************************************)
\* 0 or 1 as a Python integer.
BitValue(b) == IF b THEN One ELSE Zero

\* The least-significant bit of x.
Lsb(x) == BitValue(BitAt(x, 0))

\* The W-bit logical right shift by one: bit W-1 is filled with zero.
LogicalShift(x) ==
    [neg |-> FALSE, bits |-> {i \in 0..(W - 2) : BitAt(x, i + 1)}]

\* x logically shifted right k times.
RECURSIVE LogicalShiftBy(_, _)
LogicalShiftBy(x, k) == IF k = 0 THEN x ELSE LogicalShiftBy(LogicalShift(x), k - 1)

\* feedback = lsb ? taps : 0
CondSelect(s, t) == IF BitAt(s, 0) THEN t ELSE Zero

\* Call p is inside lfsr_32bit or has returned from it.
Entered(p) == pc[p] # "idle"

\* Call p makes one iteration of its loop in this step.
Iterates(p) == iter'[p] = iter[p] + 1

(***************************************************************************)
(* C1.  The returned list has exactly `cycles` elements, and is empty for  *)
(* cycles = 0; while the loop runs it holds one element per iteration      *)
(* made.                                                                   *)
(***************************************************************************)
LengthIsCycles ==
    \A p \in Calls :
        /\ pc[p] = "loop" => Len(output[p]) = iter[p] /\ iter[p] <= cycles[p]
        /\ pc[p] = "done" => Len(output[p]) = cycles[p]
        /\ pc[p] = "done" /\ cycles[p] = 0 => output[p] = <<>>

LengthWitness ==
    /\ pc[1] = "done"
    /\ cycles[1] = 3
    /\ Len(output[1]) = 3
    /\ seed[1] # Zero
    /\ taps[1] = DefaultTaps

(***************************************************************************)
(* C2.  Every step maps the register s to (s logically shifted right by    *)
(* one, bit W-1 zero-filled) XOR feedback, where feedback is taps when the *)
(* low bit of s is 1 and 0 when it is 0; and -(s & 1) & taps is that       *)
(* conditional select for every register and tap mask reached.             *)
(***************************************************************************)
FeedbackIsSelect ==
    \A p \in Calls :
        Entered(p) => Feedback(state[p], taps[p]) = CondSelect(state[p], taps[p])

StepIsShiftXorSelect ==
    /\ []FeedbackIsSelect
    /\ [][\A p \in Calls :
            Iterates(p) =>
                state'[p] = Xor(LogicalShift(state[p]), CondSelect(state[p], taps[p]))]_vars

\* Two steps in, the bit fed back into position W-1 by the first step has moved
\* to W-2 and position W-1 was filled with zero.
StepWitness ==
    /\ pc[1] = "loop"
    /\ iter[1] = 2
    /\ BitAt(seed[1], 0)
    /\ W - 1 \in taps[1].bits
    /\ BitAt(state[1], W - 2)
    /\ ~BitAt(state[1], W - 1)

(***************************************************************************)
(* C3.  Determinism: two calls with the same (seed, taps, cycles) return   *)
(* the same list, whatever calls ran before them in their activation       *)
(* records or ran interleaved with them; seed = 1, taps = 0x80200003,      *)
(* cycles = 5 returns [1, 0, 1, 1, 0] every time.                          *)
(***************************************************************************)
SameArgs(p, q) ==
    seed[p] = seed[q] /\ taps[p] = taps[q] /\ cycles[p] = cycles[q]

HasArgs(p, a) ==
    seed[p] = a.seed /\ taps[p] = a.taps /\ cycles[p] = a.cycles

Deterministic ==
    /\ \A p, q \in Calls :
          pc[p] = "done" /\ pc[q] = "done" /\ SameArgs(p, q) => output[p] = output[q]
    /\ \A p \in Calls :
          pc[p] = "done" /\ HasArgs(p, KnownVector)
              => output[p] = <<One, Zero, One, One, Zero>>

DeterministicWitness ==
    /\ pc[1] = "done"
    /\ pc[2] = "done"
    /\ HasArgs(1, KnownVector)
    /\ HasArgs(2, KnownVector)
    /\ Len(output[1]) = 5

(***************************************************************************)
(* C4.  Every element of the output, at every point of the run, is the     *)
(* integer 0 or the integer 1.                                             *)
(***************************************************************************)
OutputIsBits ==
    \A p \in Calls : \A k \in 1..Len(output[p]) : output[p][k] \in {Zero, One}

OutputIsBitsWitness ==
    /\ pc[1] = "loop"
    /\ iter[1] = 3
    /\ state[1] \notin {Zero, One}
    /\ \E j, k \in 1..Len(output[1]) : output[1][j] = Zero /\ output[1][k] = One

(***************************************************************************)
(* C5.  Degeneracy: from seed 0 the register is 0 after every step and     *)
(* every bit emitted is 0, whatever the tap mask; the list returned for N  *)
(* cycles is N zeros.                                                      *)
(***************************************************************************)
ZeroSeedStaysZero ==
    \A p \in Calls :
        Entered(p) /\ seed[p] = Zero =>
            /\ state[p] = Zero
            /\ \A k \in 1..Len(output[p]) : output[p][k] = Zero
            /\ pc[p] = "done" => output[p] = [k \in 1..cycles[p] |-> Zero]

ZeroSeedWitness ==
    /\ pc[1] = "done"
    /\ seed[1] = Zero
    /\ taps[1] = DefaultTaps
    /\ cycles[1] = 4
    /\ output[1] = <<Zero, Zero, Zero, Zero>>

(***************************************************************************)
(* C6.  Shift correctness: with taps = 0 the k-th bit emitted is the low   *)
(* bit of the seed logically shifted right k times; seed = 0b1011 gives    *)
(* 1, 0, 1, 0 and then only zeros.                                         *)
(***************************************************************************)
Seed1011 == [neg |-> FALSE, bits |-> {0, 1, 3}]

ShiftCorrect ==
    \A p \in Calls :
        Entered(p) /\ taps[p] = Zero =>
            /\ \A k \in 1..Len(output[p]) :
                  output[p][k] = Lsb(LogicalShiftBy(seed[p], k))
            /\ seed[p] = Seed1011 =>
                  \A k \in 1..Len(output[p]) :
                      output[p][k] = IF k <= 4 THEN <<One, Zero, One, Zero>>[k] ELSE Zero

ShiftCorrectWitness ==
    /\ pc[1] = "done"
    /\ taps[1] = Zero
    /\ seed[1] = Seed1011
    /\ output[1] = <<One, Zero, One, Zero, Zero>>

(***************************************************************************)
(* C7.  Independence: with the steps of two calls interleaved in any       *)
(* order, each call holds at every point, and returns, exactly what it     *)
(* holds and returns when run alone; a step of one call leaves the         *)
(* activation record of the other as it was.                               *)
(***************************************************************************)
AsRunAlone ==
    \A p \in Calls :
        Entered(p) =>
            /\ state[p] = RegAfter(seed[p], taps[p], iter[p])
            /\ output[p] = RunAlone(seed[p], taps[p], iter[p])
            /\ pc[p] = "done" => output[p] = RunAlone(seed[p], taps[p], cycles[p])

FrameOf(p) == <<pc[p], seed[p], taps[p], cycles[p], state[p], output[p], iter[p]>>

Independent ==
    /\ []AsRunAlone
    /\ [][\A p, q \in Calls :
            p # q /\ FrameOf(p)' # FrameOf(p) => FrameOf(q)' = FrameOf(q)]_vars

\* Both calls are in the middle of their loops, with different seeds.
IndependentWitness ==
    /\ pc[1] = "loop" /\ pc[2] = "loop"
    /\ seed[1] # seed[2]
    /\ seed[1] # Zero /\ seed[2] # Zero
    /\ taps[1] = DefaultTaps /\ taps[2] = DefaultTaps
    /\ iter[1] = 1 /\ cycles[1] = 2
    /\ iter[2] = 1 /\ cycles[2] = 2

(***************************************************************************)
(* C8.  No call ends in an error, whatever the seed (zero included), the   *)
(* tap mask and the cycle count (zero included); once in its loop a call   *)
(* returns.                                                                *)
(***************************************************************************)
NoError == \A p \in Calls : pc[p] # "error"

NeverRaises ==
    /\ []NoError
    /\ \A p \in Calls : (pc[p] = "loop") ~> (pc[p] = "done")

NeverRaisesWitness ==
    /\ pc[1] = "done"
    /\ seed[1] = Zero
    /\ taps[1] = DefaultTaps
    /\ cycles[1] = 0
    /\ output[1] = <<>>

(***************************************************************************)
(* C9.  The module's own call, with no arguments, runs with seed = 1,      *)
(* taps = 0x80200003 (bits 0, 1, 21 and 31) and cycles = 100, and the      *)
(* renderer is handed the list returned, of exactly 100 bits.              *)
(***************************************************************************)
DefaultRun ==
    /\ mpc # "start" =>
          /\ seed[1] = One
          /\ taps[1] = [neg |-> FALSE, bits |-> {0, 1, 21, 31}]
          /\ cycles[1] = 100
    /\ mpc \in {"bound", "plotted"} => seq = output[1] /\ Len(seq) = 100
    /\ mpc = "plotted" => plotted = seq /\ Len(plotted) = 100

DefaultRunWitness ==
    /\ mpc = "plotted"
    /\ pc[1] = "done"
    /\ iter[1] = 100
    /\ Len(plotted) = 100

(***************************************************************************)
(* C10.  The bit a step emits is the low bit of the register after that    *)
(* step's update: the i-th bit of the output is the low bit of the         *)
(* register after i transitions from the seed, and the last bit emitted is *)
(* the low bit of the current register.  The low bit of the seed itself is *)
(* not emitted.                                                            *)
(***************************************************************************)
EmitsNewLsb ==
    \A p \in Calls :
        Entered(p) =>
            /\ \A k \in 1..Len(output[p]) :
                  output[p][k] = Lsb(RegAfter(seed[p], taps[p], k))
            /\ Len(output[p]) > 0 => output[p][Len(output[p])] = Lsb(state[p])

\* The first bit emitted differs from the low bit of the seed.
EmitsNewLsbWitness ==
    /\ pc[1] = "loop"
    /\ iter[1] = 2
    /\ taps[1] = DefaultTaps
    /\ output[1][1] # Lsb(seed[1])
    /\ output[1][2] # Lsb(RegAfter(seed[1], taps[1], 1))

(***************************************************************************)
(* C11.  Width invariant: for W-bit seeds and tap masks the register, at   *)
(* the start of the run and after every step, is an unsigned W-bit value:  *)
(* it is not negative and has no bit set at position W or above.           *)
(***************************************************************************)
IsUnsignedW(x) == ~x.neg /\ x.bits \subseteq 0..(W - 1)

RegisterIsWBit ==
    \A p \in Calls :
        Entered(p) /\ IsUnsignedW(seed[p]) /\ IsUnsignedW(taps[p])
            => IsUnsignedW(state[p])

\* After a step that fed the mask back, the register has its top bit W-1 set.
RegisterIsWBitWitness ==
    /\ pc[1] = "loop"
    /\ iter[1] = 2
    /\ BitAt(seed[1], W - 1)
    /\ BitAt(taps[1], W - 1)
    /\ BitAt(state[1], W - 1)
    /\ BitAt(state[1], W - 2)

(***************************************************************************)
(* C12.  Every run ends after exactly `cycles` transitions of the          *)
(* register: a call in its loop returns, it returns only when it has made  *)
(* `cycles` iterations, and while fewer are made the next iteration is     *)
(* possible whatever the register holds (0 included).                      *)
(***************************************************************************)
ReturnsAtCycles ==
    \A p \in Calls :
        /\ pc[p] = "done" => iter[p] = cycles[p]
        /\ pc[p] = "loop" => iter[p] <= cycles[p]
        /\ pc[p] = "loop" /\ iter[p] < cycles[p] => ENABLED Step(p) /\ ~ENABLED Return(p)

TerminatesAtCycles ==
    /\ []ReturnsAtCycles
    /\ [][\A p \in Calls : pc[p] = "loop" /\ pc'[p] = "done" => iter[p] = cycles[p]]_vars
    /\ \A p \in Calls : (pc[p] = "loop") ~> (pc[p] = "done" /\ iter[p] = cycles[p])

\* The register reached 0 after one step, and the run went on to its fifth.
TerminatesWitness ==
    /\ pc[1] = "done"
    /\ seed[1] = One
    /\ taps[1] = Zero
    /\ cycles[1] = 5
    /\ iter[1] = 5
    /\ state[1] = Zero

(***************************************************************************)
(* C13.  State 0 is absorbing for every tap mask: a step taken with the    *)
(* register at 0, whatever the seed was, leaves it at 0 and emits 0; so    *)
(* once 0, the register stays 0 and every later bit is 0.                  *)
(***************************************************************************)
ZeroIsAbsorbing ==
    [][\A p \in Calls :
          state[p] = Zero /\ Iterates(p) =>
              /\ state'[p] = Zero
              /\ output'[p] = Append(output[p], Zero)]_vars

\* The register fell to 0 from a nonzero seed under a nonzero mask, and stayed.
ZeroIsAbsorbingWitness ==
    /\ pc[1] = "loop"
    /\ seed[1] = [neg |-> FALSE, bits |-> {0, 1}]
    /\ taps[1] = One
    /\ iter[1] = 3
    /\ state[1] = Zero
    /\ output[1] = <<Zero, Zero, Zero>>

(***************************************************************************)
(* C14.  Frame of a step: a step changes the register and appends exactly  *)
(* one bit at the end of the output, and nothing else of the call; the     *)
(* tap mask, the cycle count and the seed are those of the call in every   *)
(* state of the run, and bits already emitted stay as and where they are.  *)
(***************************************************************************)
IsPrefix(a, b) == Len(a) <= Len(b) /\ \A k \in 1..Len(a) : a[k] = b[k]

StepFrame ==
    [][\A p \in Calls :
          /\ Iterates(p) =>
                /\ Len(output'[p]) = Len(output[p]) + 1
                /\ IsPrefix(output[p], output'[p])
                /\ pc'[p] = pc[p]
                /\ UNCHANGED script
          /\ pc[p] = "loop" =>
                /\ taps'[p] = taps[p]
                /\ cycles'[p] = cycles[p]
                /\ seed'[p] = seed[p]
                /\ IsPrefix(output[p], output'[p])]_vars

StepFrameWitness ==
    /\ pc[1] = "loop"
    /\ iter[1] = 4
    /\ taps[1] = DefaultTaps
    /\ output[1] = <<One, Zero, One, One>>

(***************************************************************************)
(* C15.  Chaining: the list returned for m + n cycles is the list returned *)
(* for m cycles followed by the list returned for n cycles from the        *)
(* register the m-cycle run ended with; so the list for m cycles is a      *)
(* prefix of the list for m + n cycles.                                    *)
(***************************************************************************)
\* Call 2 is call 1 cut after cycles[2] cycles.
IsCutOf(q, p) ==
    /\ pc[p] = "done" /\ pc[q] = "done"
    /\ seed[q] = seed[p] /\ taps[q] = taps[p]
    /\ cycles[q] <= cycles[p]

\* Call r continues call q to the length of call p.
Continues(r, q, p) ==
    /\ IsCutOf(q, p)
    /\ pc[r] = "done"
    /\ seed[r] = state[q] /\ taps[r] = taps[q]
    /\ cycles[q] + cycles[r] = cycles[p]

Chains ==
    /\ IsCutOf(2, 1) => IsPrefix(output[2], output[1])
    /\ Continues(3, 2, 1) =>
          /\ output[1] = output[2] \o output[3]
          /\ state[1] = state[3]

\* 3 with taps 1 is 0 after one step: the continuation starts from register 0.
ChainsWitness ==
    /\ Continues(3, 2, 1)
    /\ seed[1] = [neg |-> FALSE, bits |-> {0, 1}]
    /\ taps[1] = One
    /\ cycles[2] = 1
    /\ cycles[3] = 2
    /\ seed[3] = Zero

\* A continuation of a run that has not fallen to 0.
ChainsDefaultWitness ==
    /\ Continues(3, 2, 1)
    /\ seed[1] = One
    /\ taps[1] = DefaultTaps
    /\ cycles[2] = 2
    /\ cycles[3] = 3
    /\ output[2] = <<One, Zero>>
    /\ output[3] = <<One, One, Zero>>

(***************************************************************************)
(* C16.  When bit W-1 of the tap mask is set, a step puts the old low bit  *)
(* at position W-1 of the new register and the old register is recovered   *)
(* from the new one (the step is injective on the W-bit registers          *)
(* reached); and a run from a nonzero seed never has its register at 0.    *)
(***************************************************************************)
\* The register a step came from, read back from the register n it produced.
Recovered(n, t) ==
    LET low == BitAt(n, W - 1)
        shifted == IF low THEN Xor(n, t) ELSE n
    IN  [neg |-> FALSE,
         bits |-> {i + 1 : i \in shifted.bits} \cup (IF low THEN {0} ELSE {})]

NonzeroStaysNonzero ==
    \A p \in Calls :
        Entered(p) /\ BitAt(taps[p], W - 1) /\ seed[p] # Zero => state[p] # Zero

TopTapInjective ==
    /\ []NonzeroStaysNonzero
    /\ [][\A p \in Calls :
            Iterates(p) /\ BitAt(taps[p], W - 1) =>
                /\ BitAt(state'[p], W - 1) = BitAt(state[p], 0)
                /\ Recovered(state'[p], taps[p]) = state[p]]_vars

\* Seed 3 falls to 0 under taps 1; with bit W-1 added to the mask it does not.
TopTapWitness ==
    /\ pc[1] = "done"
    /\ seed[1] = [neg |-> FALSE, bits |-> {0, 1}]
    /\ taps[1] = [neg |-> FALSE, bits |-> {0, W - 1}]
    /\ cycles[1] = 5
    /\ state[1] # Zero

(***************************************************************************)
(* C17.  Linearity: for runs with the same tap mask and cycle count seeded *)
(* a, b and a XOR b, the register of the third after each step is the XOR  *)
(* of the registers of the other two after that step, and the list the     *)
(* third returns is the element-wise XOR of the lists of the other two.    *)
(***************************************************************************)
XorRuns(p, q, r) ==
    /\ Entered(p) /\ Entered(q) /\ Entered(r)
    /\ seed[r] = Xor(seed[p], seed[q])
    /\ taps[p] = taps[r] /\ taps[q] = taps[r]
    /\ cycles[p] = cycles[r] /\ cycles[q] = cycles[r]

Linear ==
    XorRuns(1, 2, 3) =>
        /\ iter[1] = iter[3] /\ iter[2] = iter[3] =>
              /\ state[3] = Xor(state[1], state[2])
              /\ Len(output[3]) = Len(output[1]) /\ Len(output[3]) = Len(output[2])
              /\ \A k \in 1..Len(output[3]) :
                    output[3][k] = Xor(output[1][k], output[2][k])
        /\ pc[1] = "done" /\ pc[2] = "done" /\ pc[3] = "done" =>
              output[3] = [k \in 1..cycles[3] |-> Xor(output[1][k], output[2][k])]

LinearWitness ==
    /\ XorRuns(1, 2, 3)
    /\ pc[1] = "done" /\ pc[2] = "done" /\ pc[3] = "done"
    /\ seed[1] = One
    /\ seed[2] = [neg |-> FALSE, bits |-> {0, 1}]
    /\ taps[3] = DefaultTaps
    /\ cycles[3] = 5
    /\ output[1] = <<One, Zero, One, One, Zero>>
    /\ output[3] # output[1]
    /\ output[3] # output[2]

====
